---- MODULE Spec2Model ----
(***************************************************************************)
(* Aura: the hybrid knowledge store (aura_brain.py: a NetworkX DiGraph     *)
(* kept beside a FAISS IndexIDMap) and the plan-execute-respond workflow   *)
(* (supervisor.py, served by main.py).                                     *)
(*                                                                         *)
(* Abstractions: an embedding vector is represented by the text that was   *)
(* embedded (after get_embedding's newline replacement, the identity on    *)
(* the texts used here); Python's None for an id is -1 and for an          *)
(* embedding is NoEmbedding; node timestamps and log lines are left out.   *)
(***************************************************************************)
EXTENDS Integers, Sequences, FiniteSets, TLC

\* ---------------------------------------------------------------- bounds
MaxNodes == 2
MaxEdges == 1

\* The (content, type) pairs callers hand to add_node and find_or_create_node.
NodeInputs == {<<"Dune", "Movie">>, <<"Dune", "Note">>, <<"Tokyo", "Location">>}
Relationships == {"MENTIONS", "LIVES_IN"}

\* Python's None where an id is expected, and where an embedding is expected.
None == -1
NoEmbedding == "<None>"

\* Ids a caller may hand to add_edge: ids that can exist and one that cannot.
EdgeIds == 0..MaxNodes

\* ------------------------------------------------------------------ state
VARIABLES
    graph_nodes,    \* self.graph nodes, in insertion order: <<[id, content, type]>>
    graph_edges,    \* self.graph edges: {[source, target, label]}
    index,          \* self.index (IndexIDMap) entries, in insertion order: <<[id, vec]>>
    next_node_id,   \* self.next_node_id
    graph_file,     \* the file at graph_path: [exists, nodes, edges]
    index_file,     \* the file at index_path: [exists, entries]
    last,           \* the last call on the knowledge base and what it returned
    allocated,      \* the ids this instance started with, then those add_node returned
    TAVILY_API_KEY, \* whether the environment sets it when supervisor.py is imported
    node,           \* the workflow node the request in hand is at ("idle": no request yet)
    plan,           \* AgentState.plan: a JSON value, [type, items]
    past_steps,     \* AgentState.past_steps: <<[name, content]>>
    response,       \* AgentState.response
    reply,          \* what handle_user_request gave its caller: [status, text]
    planner_output, \* what the planning model answered for this request
    prompt_history, \* the past_steps the responder wrote into its prompt
    runs,           \* how often each workflow node ran for this request
    calls           \* the add_node calls of concurrent requests: where each is, its locals

brain_vars == <<graph_nodes, graph_edges, index, next_node_id>>
disk_vars == <<graph_file, index_file>>
ghost_vars == <<last, allocated>>
sup_vars == <<TAVILY_API_KEY, node, plan, past_steps, response, reply,
              planner_output, prompt_history, runs>>
vars == <<graph_nodes, graph_edges, index, next_node_id, graph_file, index_file,
          last, allocated,
          TAVILY_API_KEY, node, plan, past_steps, response, reply,
          planner_output, prompt_history, runs, calls>>

\* The in-memory AuraBrain as one value.
Brain == [nodes |-> graph_nodes, edges |-> graph_edges,
          index |-> index, next_node_id |-> next_node_id]

SetBrain(b) ==
    /\ graph_nodes' = b.nodes
    /\ graph_edges' = b.edges
    /\ index' = b.index
    /\ next_node_id' = b.next_node_id

\* ---------------------------------------------------------------- helpers
NodeIds(nodes) == {nodes[i].id : i \in 1..Len(nodes)}

IndexIds(idx) == {idx[i].id : i \in 1..Len(idx)}

SetMax(S) == CHOOSE m \in S : \A x \in S : x <= m

\* graph.has_node(n)
has_node(nodes, n) == n \in NodeIds(nodes)

\* graph.add_node(n, content=..., type=...): a new key is appended, an
\* existing key keeps its place and has its attributes overwritten.
graph_add_node(nodes, n, content, node_type) ==
    IF has_node(nodes, n)
    THEN [i \in 1..Len(nodes) |->
            IF nodes[i].id = n
            THEN [id |-> n, content |-> content, type |-> node_type]
            ELSE nodes[i]]
    ELSE Append(nodes, [id |-> n, content |-> content, type |-> node_type])

\* graph.add_edge as it would be were the label of an edge that is already
\* there kept.
graph_add_edge_keeps_label(edges, u, v, r) ==
    IF \E e \in edges : e.source = u /\ e.target = v
    THEN edges
    ELSE edges \cup {[source |-> u, target |-> v, label |-> r]}

\* The label of the edge u -> v, "" when there is none.
edge_label(edges, u, v) ==
    LET at == {e \in edges : e.source = u /\ e.target = v}
    IN  IF at = {} THEN "" ELSE (CHOOSE e \in at : TRUE).label

\* graph.add_edge(u, v, label=r) on a DiGraph: one edge per ordered pair,
\* a second insertion overwrites the label.
graph_add_edge(edges, u, v, r) ==
    {e \in edges : ~(e.source = u /\ e.target = v)}
        \cup {[source |-> u, target |-> v, label |-> r]}

\* index.add_with_ids: entries are appended, ids are not checked for duplicates.
add_with_ids(idx, entries) == idx \o entries

\* AuraBrain.get_embedding: the vector, or None when the provider call raises.
get_embedding(text, provider_ok) ==
    IF provider_ok THEN text ELSE NoEmbedding

\* --------------------------------------------------------------- add_node
\* add_node as it would be were the counter not advanced after a creation.
add_node_keeps_counter(b, content, node_type, provider_ok) ==
    LET node_id == b.next_node_id
        embedding == get_embedding(content, provider_ok)
    IN  IF embedding = NoEmbedding
        THEN [b |-> b, ret |-> None]
        ELSE [b |-> [b EXCEPT
                      !.nodes = graph_add_node(@, node_id, content, node_type),
                      !.index = add_with_ids(@, <<[id |-> node_id, vec |-> embedding]>>)],
              ret |-> node_id]

\* add_node as it would be were the id taken (the counter advanced) before
\* the embedding is asked for.
add_node_takes_id_first(b, content, node_type, provider_ok) ==
    LET node_id == b.next_node_id
        embedding == get_embedding(content, provider_ok)
        taken == [b EXCEPT !.next_node_id = @ + 1]
    IN  IF embedding = NoEmbedding
        THEN [b |-> taken, ret |-> None]
        ELSE [b |-> [taken EXCEPT
                      !.nodes = graph_add_node(@, node_id, content, node_type),
                      !.index = add_with_ids(@, <<[id |-> node_id, vec |-> embedding]>>)],
              ret |-> node_id]

add_node(b, content, node_type, provider_ok) ==
    LET node_id == b.next_node_id
        embedding == get_embedding(content, provider_ok)
    IN  IF embedding = NoEmbedding
        THEN [b |-> b, ret |-> None]
        ELSE [b |-> [b EXCEPT
                      !.nodes = graph_add_node(@, node_id, content, node_type),
                      !.index = add_with_ids(@, <<[id |-> node_id, vec |-> embedding]>>),
                      !.next_node_id = @ + 1],
              ret |-> node_id]

\* AuraBrain.get_node_by_content: the id of the first node, in node order,
\* whose content is the given string; None when there is none.
get_node_by_content(nodes, content) ==
    LET hits == {i \in 1..Len(nodes) : nodes[i].content = content}
    IN  IF hits = {} THEN None
        ELSE nodes[CHOOSE i \in hits : \A j \in hits : i <= j].id

\* find_or_create_node as it would be were the scan skipped.
find_or_create_node_always_creates(b, content, node_type, provider_ok) ==
    add_node(b, content, node_type, provider_ok)

find_or_create_node(b, content, node_type, provider_ok) ==
    LET node_id == get_node_by_content(b.nodes, content)
    IN  IF node_id # None
        THEN [b |-> b, ret |-> node_id]
        ELSE add_node(b, content, node_type, provider_ok)

\* add_edge as it would be were the source alone tested.
add_edge_checks_source_only(b, source_id, target_id, relationship) ==
    IF has_node(b.nodes, source_id)
    THEN [b EXCEPT !.edges = graph_add_edge(@, source_id, target_id, relationship)]
    ELSE b

\* add_edge as it would be without the test on its endpoints.
add_edge_unchecked(b, source_id, target_id, relationship) ==
    [b EXCEPT !.edges = graph_add_edge(@, source_id, target_id, relationship)]

add_edge(b, source_id, target_id, relationship) ==
    IF has_node(b.nodes, source_id) /\ has_node(b.nodes, target_id)
    THEN [b EXCEPT !.edges = graph_add_edge(@, source_id, target_id, relationship)]
    ELSE b

\* ------------------------------------------------------------ persistence
NoGraphFile == [exists |-> FALSE, nodes |-> <<>>, edges |-> {}]
NoIndexFile == [exists |-> FALSE, entries |-> <<>>]

SaveOutcomes == {"ok", "graph_write_fails", "index_write_fails"}

\* AuraBrain.save: the graph is written first, then the index; an exception
\* of either write is caught and logged, and ends the method.
save(b, disk, outcome) ==
    IF outcome = "graph_write_fails" THEN disk
    ELSE LET g == [exists |-> TRUE, nodes |-> b.nodes, edges |-> b.edges]
         IN  IF outcome = "index_write_fails"
             THEN [disk EXCEPT !.graph = g]
             ELSE [graph |-> g, index |-> [exists |-> TRUE, entries |-> b.index]]

\* shutdown_event as it would be were the brain not saved.
shutdown_event_skips_save(b, disk, outcome) == disk

\* main.shutdown_event: the brain imported from supervisor.py is an object
\* without __bool__ or __len__, so "if brain" holds and save() is called.
shutdown_event(b, disk, outcome) == save(b, disk, outcome)

\* What the caller of save() gets: the method has no return statement and
\* its except clause ends every exception of the two writes.
save_result(outcome) == [raised |-> FALSE, ret |-> None]

\* nx.read_gml followed by nx.convert_node_labels_to_integers: the nodes
\* keep the file's order and are renumbered 0, 1, ... in that order; the
\* edges follow their endpoints.
PositionOf(nodes, n) == CHOOSE i \in 1..Len(nodes) : nodes[i].id = n

\* read_graph as it would be were the nodes renumbered from 1.
read_graph_numbers_from_one(file) ==
    [nodes |-> [i \in 1..Len(file.nodes) |-> [file.nodes[i] EXCEPT !.id = i]],
     edges |-> {[source |-> PositionOf(file.nodes, e.source),
                 target |-> PositionOf(file.nodes, e.target),
                 label |-> e.label] : e \in file.edges}]

read_graph(file) ==
    [nodes |-> [i \in 1..Len(file.nodes) |-> [file.nodes[i] EXCEPT !.id = i - 1]],
     edges |-> {[source |-> PositionOf(file.nodes, e.source) - 1,
                 target |-> PositionOf(file.nodes, e.target) - 1,
                 label |-> e.label] : e \in file.edges}]

\* AuraBrain._rebuild_index_from_graph: every node is embedded again; a node
\* whose embedding is unavailable is skipped. unavailable is the set of
\* node ids for which the provider call fails.
rebuild_index_from_graph(b, unavailable) ==
    LET Embedded(n) == n.id \notin unavailable
        kept == SelectSeq(b.nodes, Embedded)
        entries == [i \in 1..Len(kept) |->
                      [id |-> kept[i].id, vec |-> get_embedding(kept[i].content, TRUE)]]
    IN  [b EXCEPT !.index = add_with_ids(@, entries)]

\* __init__ as it would be were next_node_id left at its initial 0 after
\* the graph is read.
init_brain_keeps_zero(disk, unavailable) ==
    LET g == IF disk.graph.exists
             THEN read_graph(disk.graph)
             ELSE [nodes |-> <<>>, edges |-> {}]
        loaded == [nodes |-> g.nodes, edges |-> g.edges,
                   index |-> disk.index.entries, next_node_id |-> 0]
    IN  IF disk.index.exists THEN loaded
        ELSE IF Len(g.nodes) > 0
             THEN rebuild_index_from_graph(loaded, unavailable)
             ELSE loaded

\* AuraBrain.__init__ on the files at graph_path and index_path.
init_brain(disk, unavailable) ==
    LET g == IF disk.graph.exists
             THEN read_graph(disk.graph)
             ELSE [nodes |-> <<>>, edges |-> {}]
        next == IF disk.graph.exists /\ Len(g.nodes) > 0
                THEN SetMax(NodeIds(g.nodes)) + 1
                ELSE 0
        loaded == [nodes |-> g.nodes, edges |-> g.edges,
                   index |-> disk.index.entries, next_node_id |-> next]
    IN  IF disk.index.exists THEN loaded
        ELSE IF Len(g.nodes) > 0
             THEN rebuild_index_from_graph(loaded, unavailable)
             ELSE loaded

Disk == [graph |-> graph_file, index |-> index_file]

\* ------------------------------------------------------------ hybrid search
\* k of the hybrid_search call made by query_knowledge_base.
SearchK == 3

\* The orders in which an index of n entries can give its m nearest.
Orders(n, m) == {o \in [1..m -> 1..n] : \A i, j \in 1..m : i # j => o[i] # o[j]}

Min(a, b) == IF a <= b THEN a ELSE b

\* index.search(query, k): one row of k ids, nearest first, filled with -1
\* where the index has fewer than k entries; order is the provider-dependent
\* ranking of the index entries.
\* index.search as it would be were every entry returned whatever k is.
faiss_search_ignores_k(idx, k, order) ==
    [i \in 1..Len(idx) |-> idx[i].id]

faiss_search(idx, k, order) ==
    [i \in 1..k |-> IF i <= Len(order) THEN idx[order[i]].id ELSE -1]

node_data(nodes, n) == nodes[PositionOf(nodes, n)]

\* The body of hybrid_search's inner loop: one entry per node adjacent to
\* node_id in either direction, labelled by the edge node_id -> neighbor
\* when there is one and by the edge neighbor -> node_id otherwise. The
\* code's list names a neighbor joined in both directions twice, with the
\* same label both times; the set here names it once.
neighborhood(b, node_id) ==
    LET all_neighbors == {e.source : e \in {x \in b.edges : x.target = node_id}}
                            \cup {e.target : e \in {x \in b.edges : x.source = node_id}}
        out(nb) == {e \in b.edges : e.source = node_id /\ e.target = nb}
        in(nb) == {e \in b.edges : e.source = nb /\ e.target = node_id}
        edge_data(nb) == IF out(nb) # {} THEN CHOOSE e \in out(nb) : TRUE
                         ELSE CHOOSE e \in in(nb) : TRUE
    IN  {[id |-> nb,
          content |-> node_data(b.nodes, nb).content,
          type |-> node_data(b.nodes, nb).type,
          relationship |-> edge_data(nb).label] : nb \in all_neighbors}

\* hybrid_search as it would be were the index searched whether or not the
\* query was embedded.
hybrid_search_without_check(b, k, provider_ok, order) ==
    LET ids == faiss_search(b.index, k, order)
        Seed(i) == /\ has_node(b.nodes, ids[i])
                   /\ \A j \in 1..(i - 1) : ids[j] # ids[i]
        at == SelectSeq([i \in 1..Len(ids) |-> i], Seed)
    IN  [i \in 1..Len(at) |->
           [id |-> ids[at[i]],
            content |-> node_data(b.nodes, ids[at[i]]).content,
            type |-> node_data(b.nodes, ids[at[i]]).type,
            neighborhood |-> neighborhood(b, ids[at[i]])]]

\* AuraBrain.hybrid_search: the seeds in the order the index gave them, each
\* id once (results is a dict keyed by id), ids that are no node skipped.
hybrid_search(b, k, provider_ok, order) ==
    IF get_embedding("query", provider_ok) = NoEmbedding THEN <<>>
    ELSE LET ids == faiss_search(b.index, k, order)
             Seed(i) == /\ has_node(b.nodes, ids[i])
                        /\ \A j \in 1..(i - 1) : ids[j] # ids[i]
             at == SelectSeq([i \in 1..Len(ids) |-> i], Seed)
         IN  [i \in 1..Len(at) |->
                [id |-> ids[at[i]],
                 content |-> node_data(b.nodes, ids[at[i]]).content,
                 type |-> node_data(b.nodes, ids[at[i]]).type,
                 neighborhood |-> neighborhood(b, ids[at[i]])]]

\* -------------------------------------------------------------- the tools
\* What the outside answers during one tool call: whether the embedding
\* provider answers, how the index ranks its entries, and how the external
\* lookup ends.
Lookups == {"page", "no_page", "fails"}

Envs(b) ==
    [provider_ok : BOOLEAN,
     order : Orders(Len(b.index), Min(SearchK, Len(b.index))),
     lookup : Lookups]

\* query_knowledge_base as it would be were the query kept as a note.
query_knowledge_base_keeps_note(b, env) ==
    [raised |-> FALSE, b |-> add_node(b, "query", "Note", TRUE).b,
     result |-> [kind |-> "kb_nothing_relevant", found |-> <<>>]]

\* AuraAgent.query_knowledge_base: the text it returns, as [kind, found],
\* and the knowledge base as the call leaves it.
query_knowledge_base(b, env) ==
    LET search_context == hybrid_search(b, SearchK, env.provider_ok, env.order)
    IN  IF search_context = <<>>
        THEN [raised |-> FALSE, b |-> b,
              result |-> [kind |-> "kb_nothing_relevant", found |-> <<>>]]
        ELSE [raised |-> FALSE, b |-> b,
              result |-> [kind |-> "kb_found",
                          found |-> [i \in 1..Len(search_context) |->
                                       [content |-> search_context[i].content,
                                        type |-> search_context[i].type,
                                        connected |-> {n.content : n \in
                                                         search_context[i].neighborhood}]]]]

\* AuraAgent.external_search: every failure of the lookup is caught. The
\* method touches the encyclopedia client alone.
external_search(b, env) ==
    [raised |-> FALSE, b |-> b,
     result |-> [kind |-> CASE env.lookup = "page" -> "wikipedia_summary"
                            [] env.lookup = "no_page" -> "wikipedia_no_page"
                            [] OTHER -> "search_apology",
                 found |-> <<>>]]

\* An exception that leaves a tool with the knowledge base as b.
Raised(b) == [raised |-> TRUE, b |-> b, result |-> [kind |-> "exception", found |-> <<>>]]

\* AuraAgent.update_knowledge_base as the supervisor's tool calls it: with
\* the extracted graph, a dict, where the method takes text; text[:50] on a
\* dict raises before anything else is done.
update_knowledge_base_tool(b, env) == Raised(b)

\* supervisor.qloo_enrichment: memory_agent.qloo_enrichment is no attribute
\* of AuraAgent, so the call raises AttributeError.
qloo_enrichment_tool(b, env) == Raised(b)

\* supervisor.tavily_tool: without TAVILY_API_KEY the fallback that calls
\* external_search; with it the TavilySearch tool of langchain_tavily, which
\* returns its results or raises.
tavily_tool(b, key, env) ==
    IF ~key THEN external_search(b, env)
    ELSE IF env.lookup = "fails" THEN Raised(b)
         ELSE [raised |-> FALSE, b |-> b,
               result |-> [kind |-> "tavily_results", found |-> <<>>]]

\* The extracted graph a Step of update_knowledge_base carries when its
\* argument fits the tool: {"extracted_graph": {"nodes": ..., "edges": ...}}.
ExtractedGraph ==
    [nodes |-> <<[content |-> "Dune", type |-> "Movie"],
                 [content |-> "Tokyo", type |-> "Location"]>>,
     edges |-> <<[source |-> "Dune", target |-> "Tokyo", relationship |-> "MENTIONS"]>>]

\* The keys of all_tools in execution_node.
ToolNames == {"update_knowledge_base", "query_knowledge_base",
              "tavily_search", "qloo_enrichment"}

\* all_tools[tool_name].invoke(tool_arg): an argument that does not fit the
\* tool's schema raises a validation error before the tool runs.
invoke(tool_name, tool_arg, b, key, env) ==
    IF tool_arg # "well_shaped" THEN Raised(b)
    ELSE CASE tool_name = "update_knowledge_base" -> update_knowledge_base_tool(b, env)
           [] tool_name = "query_knowledge_base" -> query_knowledge_base(b, env)
           [] tool_name = "tavily_search" -> tavily_tool(b, key, env)
           [] tool_name = "qloo_enrichment" -> qloo_enrichment_tool(b, env)

\* ------------------------------------------------- the agent on free text
\* A key a dict does not have.
NoKey == "<no key>"

\* The text a user sends.
Texts == {"Saw Dune in Tokyo"}

\* What _extract_graph_from_text returns: None when the model call or the
\* parse fails, an object without nodes, or an extracted graph; the last of
\* these has a node without the "content" key.
Extractions ==
    {[kind |-> "none", nodes |-> <<>>, edges |-> <<>>],
     [kind |-> "graph", nodes |-> <<>>, edges |-> <<>>],
     [kind |-> "graph", nodes |-> ExtractedGraph.nodes, edges |-> ExtractedGraph.edges],
     [kind |-> "graph",
      nodes |-> <<[content |-> "Dune", type |-> "Movie"]>>,
      edges |-> <<[source |-> "Dune", target |-> "Sarah", relationship |-> "LIVES_IN"]>>],
     [kind |-> "graph",
      nodes |-> <<[content |-> "Dune", type |-> "Movie"], [content |-> NoKey, type |-> "Movie"]>>,
      edges |-> <<>>]}

\* What the recommendation API answers for the primary entity: no entity id
\* (no QLOO_API_KEY, a failed or empty search), or an entity id and the
\* recommendations of the output types whose request succeeded.
Qloos ==
    {[entity |-> FALSE, recs |-> <<>>],
     [entity |-> TRUE, recs |-> <<[name |-> "Tokyo", category |-> "Place"]>>]}

\* rec_category.upper() behind "RECOMMENDS_".
recommends(category) ==
    CASE category = "Place" -> "RECOMMENDS_PLACE"
      [] category = "Book" -> "RECOMMENDS_BOOK"
      [] category = "Music" -> "RECOMMENDS_MUSIC"

\* node_id_map.get(content): the id the last node of that content was given.
map_get(node_id_map, content) ==
    LET at == {i \in 1..Len(node_id_map) : node_id_map[i].content = content}
    IN  IF at = {} THEN None
        ELSE node_id_map[CHOOSE i \in at : \A j \in at : j <= i].id

\* The loop over nodes_data: find_or_create_node for each node in turn;
\* node['content'] on a node without that key raises and ends the method.
RECURSIVE map_nodes(_, _, _, _)
map_nodes(b, nodes_data, node_id_map, failing) ==
    IF nodes_data = <<>> THEN [raised |-> FALSE, b |-> b, node_id_map |-> node_id_map]
    ELSE IF nodes_data[1].content = NoKey
         THEN [raised |-> TRUE, b |-> b, node_id_map |-> node_id_map]
    ELSE LET r == find_or_create_node(b, nodes_data[1].content, nodes_data[1].type,
                                      nodes_data[1].content \notin failing)
         IN  map_nodes(r.b, Tail(nodes_data),
                       Append(node_id_map, [content |-> nodes_data[1].content,
                                            id |-> r.ret]),
                       failing)

\* The loop over edges_data: an edge is added when both of its ends were
\* given an id.
RECURSIVE map_edges(_, _, _)
map_edges(b, edges_data, node_id_map) ==
    IF edges_data = <<>> THEN b
    ELSE LET source_id == map_get(node_id_map, edges_data[1].source)
             target_id == map_get(node_id_map, edges_data[1].target)
         IN  map_edges(IF source_id # None /\ target_id # None
                       THEN add_edge(b, source_id, target_id, edges_data[1].relationship)
                       ELSE b,
                       Tail(edges_data), node_id_map)

\* _enrich_node_with_qloo once the entity id is known: every recommendation
\* is found or created and joined to the node.
RECURSIVE add_recommendations(_, _, _, _)
add_recommendations(b, node_id, recs, failing) ==
    IF recs = <<>> THEN b
    ELSE LET r == find_or_create_node(b, recs[1].name, recs[1].category,
                                      recs[1].name \notin failing)
         IN  add_recommendations(IF r.ret # None
                                 THEN add_edge(r.b, node_id, r.ret,
                                               recommends(recs[1].category))
                                 ELSE r.b,
                                 node_id, Tail(recs), failing)

enrich_node_with_qloo(b, node_id, qloo, failing) ==
    IF ~qloo.entity THEN b
    ELSE add_recommendations(b, node_id, qloo.recs, failing)

\* The outside during one call of the agent: the graph the model extracts,
\* the texts whose embedding fails, the ranking of the index, the
\* recommendation API's answer, and how a save() ends.
\* AuraAgent.update_knowledge_base(text): what it returns as [kind], the ids
\* the nodes it asked for were given, and the store and the files as it
\* leaves them.
update_knowledge_base(b, disk, text, env) ==
    LET extracted_graph == env.extraction
    IN  IF extracted_graph.kind = "none" \/ extracted_graph.nodes = <<>>
        THEN LET r == add_node(b, text, "Note", text \notin env.failing)
             IN  [raised |-> FALSE, b |-> r.b, disk |-> save(r.b, disk, env.outcome),
                  route |-> "single_note", ids |-> <<r.ret>>,
                  result |-> [kind |-> "saved_single_note"]]
        ELSE LET nodes_data == extracted_graph.nodes
                 mapped == map_nodes(b, nodes_data, <<>>, env.failing)
                 ids == [i \in 1..Len(mapped.node_id_map) |-> mapped.node_id_map[i].id]
             IN  IF mapped.raised
                 THEN [raised |-> TRUE, b |-> mapped.b, disk |-> disk,
                       route |-> "graph", ids |-> ids,
                       result |-> [kind |-> "exception"]]
                 ELSE LET joined == map_edges(mapped.b, extracted_graph.edges,
                                              mapped.node_id_map)
                          primary_entity_id ==
                              map_get(mapped.node_id_map, nodes_data[1].content)
                          enriched ==
                              IF primary_entity_id # None
                              THEN enrich_node_with_qloo(joined, primary_entity_id,
                                                         env.qloo, env.failing)
                              ELSE joined
                      IN  [raised |-> FALSE, b |-> enriched,
                           disk |-> save(enriched, disk, env.outcome),
                           route |-> "graph", ids |-> ids,
                           result |-> [kind |-> "updated_knowledge_base"]]

\* What _determine_intent returns; "UNKNOWN" also when the model call fails.
Intents == {"ASK_QUESTION", "ADD_COMPLEX_KNOWLEDGE", "ADD_SIMPLE_NOTE", "UNKNOWN"}

\* AuraOrchestrator.handle_request(text) once the intent is determined.
handle_request(b, disk, intent, text, env) ==
    CASE intent = "ASK_QUESTION" ->
           LET r == query_knowledge_base(b, [provider_ok |-> "query" \notin env.failing,
                                             order |-> env.order, lookup |-> "page"])
           IN  [raised |-> r.raised, b |-> r.b, disk |-> disk, route |-> "ask",
                ids |-> <<>>, result |-> [kind |-> r.result.kind]]
      [] intent = "ADD_SIMPLE_NOTE" ->
           LET r == add_node(b, text, "Note", text \notin env.failing)
           IN  [raised |-> FALSE, b |-> r.b, disk |-> save(r.b, disk, env.outcome),
                route |-> "simple_note", ids |-> <<r.ret>>,
                result |-> [kind |-> "saved_simple_note"]]
      [] OTHER -> update_knowledge_base(b, disk, text, env)

\* How the save() at the end of a route ends: well, or with its first write
\* failing; a failure between the two writes is followed under Save.
RouteSaveOutcomes == {"ok", "graph_write_fails"}

\* The answers of the outside that the route of an intent can meet.
AgentEnvs(intent, text, b) ==
    CASE intent = "ASK_QUESTION" ->
           [extraction : {[kind |-> "none", nodes |-> <<>>, edges |-> <<>>]},
            failing : {{}, {"query"}},
            order : Orders(Len(b.index), Min(SearchK, Len(b.index))),
            qloo : {[entity |-> FALSE, recs |-> <<>>]},
            outcome : {"ok"}]
      [] intent = "ADD_SIMPLE_NOTE" ->
           [extraction : {[kind |-> "none", nodes |-> <<>>, edges |-> <<>>]},
            failing : {{}, {text}},
            order : {<<>>},
            qloo : {[entity |-> FALSE, recs |-> <<>>]},
            outcome : RouteSaveOutcomes]
      [] OTHER ->
           UNION {[extraction : {x},
                   failing : IF x.nodes = <<>> THEN {{}, {text}}
                             ELSE SUBSET {"Dune", "Tokyo"},
                   order : {<<>>},
                   qloo : IF x.nodes = <<>> THEN {[entity |-> FALSE, recs |-> <<>>]}
                          ELSE Qloos,
                   outcome : RouteSaveOutcomes] : x \in Extractions}

\* ------------------------------------------------------------ the workflow
MaxPlanLen == 2

\* The items a planning model may put in its plan: steps for the known
\* tools and for a tool that is not in all_tools, each with an argument that
\* fits the tool or does not, and dicts without the "tool" or "arg" key.
PlanItems ==
    [tool : ToolNames \cup {"send_email"}, arg : {"well_shaped", "ill_shaped"}]
        \cup {[tool |-> NoKey, arg |-> "well_shaped"],
              [tool |-> "query_knowledge_base", arg |-> NoKey]}

SeqsUpTo(S, n) == UNION {[1..m -> S] : m \in 0..n}

\* JSON values: a list is its items, a string its characters, null nothing.
EmptyPlan == [type |-> "list", items |-> <<>>]
NullPlan == [type |-> "null", items |-> <<>>]
StringPlan == [type |-> "string", items |-> <<"x">>]

PlanValues ==
    {[type |-> "list", items |-> s] : s \in SeqsUpTo(PlanItems, MaxPlanLen)}
        \cup {NullPlan, StringPlan}

\* What llm.invoke gives planner_node: an exception, text that is no JSON,
\* JSON that is no object, an object without "plan", an object with "plan".
PlannerOutputs ==
    {[kind |-> k, plan |-> NullPlan] :
        k \in {"llm_raises", "not_json", "not_object", "no_plan_key"}}
        \cup {[kind |-> "plan", plan |-> p] : p \in PlanValues}

NoOutput == [kind |-> "pending", plan |-> NullPlan]

\* Python's truth of a JSON value: an empty list, an empty string and None
\* are false.
Truthy(value) == Len(value.items) > 0

\* planner_node: JSONDecodeError and AttributeError give the empty plan,
\* any other exception of the model call leaves the node.
planner_node(output) ==
    IF output.kind = "llm_raises"
    THEN [raised |-> TRUE, plan |-> NullPlan]
    ELSE [raised |-> FALSE,
          plan |-> IF output.kind = "plan" THEN output.plan ELSE EmptyPlan]

\* past_steps: Annotated[list, add_messages]: an update is appended.
add_messages(left, right) == left \o right

\* plan[0] as it would be were the step taken from the other end.
first_step_from_the_end(items) == items[Len(items)]

\* plan[0] and plan[1:] of execution_node.
first_step(items) == Head(items)

\* plan[1:] as it would be were two Steps dropped.
rest_of_plan_drops_two(items) == SubSeq(items, 3, Len(items))

rest_of_plan(items) == Tail(items)

\* execution_node: the update it returns ([has_plan] tells whether the
\* update has the "plan" key) or the exception that leaves it, and the
\* knowledge base as the step's tool leaves it.
NodeRaised(b) ==
    [raised |-> TRUE, has_plan |-> FALSE, plan |-> NullPlan, past_steps |-> <<>>, b |-> b]

\* execution_node as it would be were a Step of an unknown tool passed over.
execution_node_skips_unknown(state_plan, b, key, env) ==
    IF ~Truthy(state_plan)
    THEN [raised |-> FALSE, has_plan |-> FALSE, plan |-> state_plan,
          past_steps |-> <<>>, b |-> b]
    ELSE IF state_plan.type # "list" THEN NodeRaised(b)
    ELSE LET step == first_step(state_plan.items)
             remaining_plan == rest_of_plan(state_plan.items)
         IN  IF step.tool = NoKey \/ step.arg = NoKey THEN NodeRaised(b)
             ELSE IF step.tool \notin ToolNames
                  THEN [raised |-> FALSE, has_plan |-> TRUE,
                        plan |-> [type |-> "list", items |-> remaining_plan],
                        past_steps |-> <<>>, b |-> b]
             ELSE LET r == invoke(step.tool, step.arg, b, key, env)
                  IN  IF r.raised THEN NodeRaised(r.b)
                      ELSE [raised |-> FALSE, has_plan |-> TRUE,
                            plan |-> [type |-> "list", items |-> remaining_plan],
                            past_steps |-> <<[name |-> step.tool, content |-> r.result]>>,
                            b |-> r.b]

execution_node(state_plan, b, key, env) ==
    IF ~Truthy(state_plan)
    THEN [raised |-> FALSE, has_plan |-> FALSE, plan |-> state_plan,
          past_steps |-> <<>>, b |-> b]
    ELSE IF state_plan.type # "list" THEN NodeRaised(b)
    ELSE LET step == first_step(state_plan.items)
             remaining_plan == rest_of_plan(state_plan.items)
         IN  IF step.tool = NoKey \/ step.arg = NoKey THEN NodeRaised(b)
             ELSE IF step.tool \notin ToolNames THEN NodeRaised(b)
             ELSE LET r == invoke(step.tool, step.arg, b, key, env)
                  IN  IF r.raised THEN NodeRaised(r.b)
                      ELSE [raised |-> FALSE, has_plan |-> TRUE,
                            plan |-> [type |-> "list", items |-> remaining_plan],
                            past_steps |-> <<[name |-> step.tool, content |-> r.result]>>,
                            b |-> r.b]

\* should_continue as it would be were it to answer "respond" whatever the
\* Plan holds.
should_continue_responds_at_once(state_plan) == "respond"

should_continue(state_plan) ==
    IF Truthy(state_plan) /\ Len(state_plan.items) > 0 THEN "execute" ELSE "respond"

\* The workflow as it would be with an edge from the responder back to the
\* planner.
workflow_replans(at, state_plan) ==
    CASE at = "planner" -> "executor"
      [] at = "executor" -> IF Truthy(state_plan) /\ Len(state_plan.items) > 0
                            THEN "executor" ELSE "responder"
      [] at = "responder" -> "planner"

\* The edges of the workflow: where the run goes after a node has returned.
workflow(at, state_plan) ==
    CASE at = "planner" -> "executor"
      [] at = "executor" -> IF should_continue(state_plan) = "execute"
                            THEN "executor" ELSE "responder"
      [] at = "responder" -> "END"

NoResponse == "<no response>"
NoReply == [status |-> 0, text |-> ""]
InternalError == [status |-> 500,
                  text |-> "An internal error occurred while handling your request."]

\* response_synthesizer_node: the model's text, or the exception of its call.
response_synthesizer_node(llm_ok) ==
    [raised |-> ~llm_ok, response |-> "synthesized response"]

\* handle_user_request once supervisor_app.invoke has returned final_state.
handle_user_request(final_response) ==
    [status |-> 200,
     text |-> IF final_response = NoResponse
              THEN "Sorry, I had trouble generating a final response."
              ELSE final_response]

NoRuns == [planner |-> 0, executor |-> 0, responder |-> 0]

\* ---------------------------------------------------- concurrent requests
\* handle_user_request is a plain def: the server runs each request in a
\* thread of its pool, all on the one brain of supervisor.py.
Requests == {"r1", "r2"}

Idle == [pc |-> "idle", content |-> "", type |-> "", node_id |-> None,
         embedding |-> NoEmbedding, ret |-> None]

NoCalls == [t \in Requests |-> Idle]

\* ---------------------------------------------------------------- initial
NoRequest ==
    /\ node = "idle"
    /\ plan = NullPlan
    /\ past_steps = <<>>
    /\ response = NoResponse
    /\ reply = NoReply
    /\ planner_output = NoOutput
    /\ prompt_history = <<>>
    /\ runs = NoRuns

Init ==
    /\ graph_nodes = <<>>
    /\ graph_edges = {}
    /\ index = <<>>
    /\ next_node_id = 0
    /\ graph_file = NoGraphFile
    /\ index_file = NoIndexFile
    /\ last = [op |-> "__init__", rebuilt |-> FALSE, after_save |-> FALSE]
    /\ allocated = <<>>
    /\ TAVILY_API_KEY = FALSE
    /\ NoRequest
    /\ calls = NoCalls

\* ---------------------------------------------------------------- actions
\* Direct calls on the knowledge base, as the module's own demonstration
\* and the agent make them.
\* The process has not been shut down.
Running == last.op # "shutdown"

LogAddNode(r) ==
    allocated' = IF r.ret = None THEN allocated ELSE Append(allocated, r.ret)

AddNode ==
    \E input \in NodeInputs, provider_ok \in BOOLEAN :
        LET r == add_node(Brain, input[1], input[2], provider_ok)
        IN  /\ Running
            /\ Len(r.b.nodes) <= MaxNodes
            /\ SetBrain(r.b)
            /\ last' = [op |-> "add_node", content |-> input[1], ret |-> r.ret,
                        after_failure |-> last.op = "add_node" /\ last.ret = None]
            /\ LogAddNode(r)
            /\ UNCHANGED disk_vars
            /\ UNCHANGED <<sup_vars, calls>>

\* last.replaced is the label the edge source -> target had before the call.
\* last.prior holds the outcome of the call before this one when that call
\* was find_or_create_node with the same content, and is empty otherwise.
FindOrCreateNode ==
    \E input \in NodeInputs, provider_ok \in BOOLEAN :
        LET found == get_node_by_content(graph_nodes, input[1]) # None
            r == find_or_create_node(Brain, input[1], input[2], provider_ok)
            again == last.op = "find_or_create_node" /\ last.content = input[1]
        IN  /\ Running
            /\ Len(r.b.nodes) <= MaxNodes
            /\ SetBrain(r.b)
            /\ last' = [op |-> "find_or_create_node", content |-> input[1],
                        found |-> found, ret |-> r.ret,
                        created |-> Len(r.b.nodes) - Len(graph_nodes),
                        prior |-> IF again
                                  THEN <<[found |-> last.found, ret |-> last.ret,
                                          created |-> last.created]>>
                                  ELSE <<>>]
            /\ IF found
               THEN UNCHANGED allocated
               ELSE LogAddNode(r)
            /\ UNCHANGED disk_vars
            /\ UNCHANGED <<sup_vars, calls>>

AddEdge ==
    \E source_id \in EdgeIds, target_id \in EdgeIds, relationship \in Relationships :
        LET b == add_edge(Brain, source_id, target_id, relationship)
        IN  /\ Running
            /\ Cardinality(b.edges) <= MaxEdges
            /\ SetBrain(b)
            /\ last' = [op |-> "add_edge", source |-> source_id,
                        target |-> target_id, label |-> relationship,
                        replaced |-> edge_label(graph_edges, source_id, target_id)]
            /\ UNCHANGED <<disk_vars, allocated>>
            /\ UNCHANGED <<sup_vars, calls>>

Save ==
    \E outcome \in SaveOutcomes :
        LET d == save(Brain, Disk, outcome)
        IN  /\ Running
            /\ graph_file' = d.graph
            /\ index_file' = d.index
            /\ last' = [op |-> "save", outcome |-> outcome,
                        seen |-> save_result(outcome)]
            /\ UNCHANGED <<brain_vars, allocated>>
            /\ UNCHANGED <<sup_vars, calls>>

\* The server is shut down: its shutdown handler runs, then the process
\* exits; what can follow is the construction of a new knowledge base.
Shutdown ==
    \E outcome \in SaveOutcomes :
        LET d == shutdown_event(Brain, Disk, outcome)
        IN  /\ Running
            /\ graph_file' = d.graph
            /\ index_file' = d.index
            /\ last' = [op |-> "shutdown", outcome |-> outcome]
            /\ UNCHANGED <<brain_vars, allocated>>
            /\ UNCHANGED <<sup_vars, calls>>

\* The process ends (or crashes) and a new one constructs AuraBrain() from
\* the files the old one left; unavailable is the set of nodes whose
\* embedding the provider fails to give during a rebuild.
Restart ==
    \E unavailable \in SUBSET NodeIds(read_graph(graph_file).nodes) :
        LET b == init_brain(Disk, unavailable)
        IN  /\ SetBrain(b)
            /\ last' = [op |-> "__init__",
                        rebuilt |-> ~index_file.exists /\ Len(b.nodes) > 0,
                        after_save |-> last.op = "save" /\ last.outcome = "ok"]
            /\ allocated' = [i \in 1..Len(b.nodes) |-> b.nodes[i].id]
            /\ UNCHANGED disk_vars
            /\ UNCHANGED <<sup_vars, calls>>

\* ------------------------------------------------- the request workflow
\* POST /handle: supervisor_app.invoke({"input": text}) begins at the entry
\* point. Requests are taken one after another.
HandleUserRequest ==
    /\ node = "idle" \/ reply.status # 0
    /\ node' = "planner"
    /\ plan' = NullPlan
    /\ past_steps' = <<>>
    /\ response' = NoResponse
    /\ reply' = NoReply
    /\ planner_output' = NoOutput
    /\ prompt_history' = <<>>
    /\ runs' = NoRuns
    /\ UNCHANGED <<brain_vars, disk_vars, ghost_vars, TAVILY_API_KEY, calls>>

InRequest(at) == node = at /\ reply.status = 0

\* An exception leaves supervisor_app.invoke and handle_user_request
\* answers it with HTTP 500.
Raise ==
    /\ reply' = InternalError
    /\ UNCHANGED <<node, plan, past_steps, response>>

Planner ==
    /\ InRequest("planner")
    /\ \E output \in PlannerOutputs :
          LET r == planner_node(output)
          IN  /\ planner_output' = output
              /\ runs' = [runs EXCEPT !.planner = @ + 1]
              /\ IF r.raised THEN Raise
                 ELSE /\ plan' = r.plan
                      /\ node' = workflow("planner", r.plan)
                      /\ UNCHANGED <<past_steps, response, reply>>
    /\ UNCHANGED <<brain_vars, disk_vars, ghost_vars, TAVILY_API_KEY, calls, prompt_history>>

\* last records what the outside answered during the step.
Executor ==
    /\ InRequest("executor")
    /\ \E env \in Envs(Brain) :
          LET r == execution_node(plan, Brain, TAVILY_API_KEY, env)
              new_plan == IF r.has_plan THEN r.plan ELSE plan
          IN  /\ runs' = [runs EXCEPT !.executor = @ + 1]
              /\ SetBrain(r.b)
              /\ last' = [op |-> "execution_node", provider_ok |-> env.provider_ok,
                          lookup |-> env.lookup]
              /\ IF r.raised THEN Raise
                 ELSE /\ plan' = new_plan
                      /\ past_steps' = add_messages(past_steps, r.past_steps)
                      /\ node' = workflow("executor", new_plan)
                      /\ UNCHANGED <<response, reply>>
    /\ UNCHANGED <<disk_vars, allocated, TAVILY_API_KEY, calls, planner_output, prompt_history>>

Responder ==
    /\ InRequest("responder")
    /\ \E llm_ok \in BOOLEAN :
          LET r == response_synthesizer_node(llm_ok)
          IN  /\ prompt_history' = past_steps
              /\ runs' = [runs EXCEPT !.responder = @ + 1]
              /\ IF r.raised THEN Raise
                 ELSE /\ response' = r.response
                      /\ node' = workflow("responder", plan)
                      /\ UNCHANGED <<plan, past_steps, reply>>
    /\ UNCHANGED <<brain_vars, disk_vars, ghost_vars, TAVILY_API_KEY, calls, planner_output>>

Return ==
    /\ InRequest("END")
    /\ reply' = handle_user_request(response)
    /\ UNCHANGED <<brain_vars, disk_vars, ghost_vars, TAVILY_API_KEY, calls, node, plan,
                   past_steps, response, planner_output, prompt_history, runs>>

NextSup ==
    \/ HandleUserRequest
    \/ Planner
    \/ Executor
    \/ Responder
    \/ Return

\* The store a served process starts on: none, or the one an earlier
\* process built with these calls and saved.
SeedBrain ==
    LET empty == [nodes |-> <<>>, edges |-> {}, index |-> <<>>, next_node_id |-> 0]
        note == add_node(empty, "Dune", "Note", TRUE)
        place == find_or_create_node(note.b, "Tokyo", "Location", TRUE)
    IN  add_edge(place.b, note.ret, place.ret, "MENTIONS")

NoFiles == [graph |-> NoGraphFile, index |-> NoIndexFile]

SeedDisks == {NoFiles, save(SeedBrain, NoFiles, "ok")}

\* supervisor.py is imported: brain = AuraBrain() on the files it finds.
InitSup ==
    /\ \E disk \in SeedDisks :
          LET b == init_brain(disk, {})
          IN  /\ graph_nodes = b.nodes
              /\ graph_edges = b.edges
              /\ index = b.index
              /\ next_node_id = b.next_node_id
              /\ graph_file = disk.graph
              /\ index_file = disk.index
              /\ allocated = [i \in 1..Len(b.nodes) |-> b.nodes[i].id]
    /\ last = [op |-> "__init__", rebuilt |-> FALSE, after_save |-> FALSE]
    /\ TAVILY_API_KEY \in BOOLEAN
    /\ NoRequest
    /\ calls = NoCalls

NextStore ==
    \/ AddNode
    \/ FindOrCreateNode
    \/ AddEdge

Next ==
    \/ AddNode
    \/ FindOrCreateNode
    \/ AddEdge
    \/ Save
    \/ Shutdown
    \/ Restart

\* ------------------------------------------------------ the search alone
\* hybrid_search on the stores that calls of add_node and add_edge build.
MaxSearchEdges == 2
MaxK == 3

EmptyBrain == [nodes |-> <<>>, edges |-> {}, index |-> <<>>, next_node_id |-> 0]

RECURSIVE add_nodes(_, _)
add_nodes(b, inputs) ==
    IF inputs = <<>> THEN b
    ELSE add_nodes(add_node(b, inputs[1][1], inputs[1][2], TRUE).b, Tail(inputs))

RECURSIVE add_edges(_, _)
add_edges(b, edge_calls) ==
    IF edge_calls = <<>> THEN b
    ELSE add_edges(add_edge(b, edge_calls[1][1], edge_calls[1][2], edge_calls[1][3]),
                   Tail(edge_calls))

EdgeCalls == EdgeIds \X EdgeIds \X Relationships

SearchStores ==
    {add_edges(add_nodes(EmptyBrain, inputs), edge_calls) :
        inputs \in SeqsUpTo(NodeInputs, MaxNodes),
        edge_calls \in SeqsUpTo(EdgeCalls, MaxSearchEdges)}

InitSearch ==
    /\ \E b \in SearchStores :
          /\ graph_nodes = b.nodes
          /\ graph_edges = b.edges
          /\ index = b.index
          /\ next_node_id = b.next_node_id
          /\ allocated = [i \in 1..Len(b.nodes) |-> b.nodes[i].id]
    /\ graph_file = NoGraphFile
    /\ index_file = NoIndexFile
    /\ last = [op |-> "__init__", rebuilt |-> FALSE, after_save |-> FALSE]
    /\ TAVILY_API_KEY = FALSE
    /\ NoRequest
    /\ calls = NoCalls

\* hybrid_search(query_text, k): whether the provider embeds the query and
\* how the index ranks its entries are the outside's.
HybridSearch ==
    \E k \in 1..MaxK, provider_ok \in BOOLEAN :
        \E order \in Orders(Len(index), Min(k, Len(index))) :
            /\ last' = [op |-> "hybrid_search", k |-> k, provider_ok |-> provider_ok,
                        results |-> hybrid_search(Brain, k, provider_ok, order)]
            /\ UNCHANGED <<brain_vars, disk_vars, allocated>>
            /\ UNCHANGED <<sup_vars, calls>>

NextSearch == HybridSearch

\* Searches on a populated knowledge base.
SpecSearch == InitSearch /\ [][NextSearch]_vars

\* ------------------------------------------------------ the agent's routes
\* orchestrator.handle_request(text) on the agent's knowledge base. last
\* records the route taken, the ids the nodes asked for were given (None for
\* a creation that failed), and what was reported upward.
HandleRequest ==
    \E intent \in Intents, text \in Texts :
        \E env \in AgentEnvs(intent, text, Brain) :
            \E r \in {handle_request(Brain, Disk, intent, text, env)} :
                /\ Running
                /\ Len(r.b.nodes) <= MaxNodes
                /\ Cardinality(r.b.edges) <= MaxEdges
                /\ SetBrain(r.b)
                /\ graph_file' = r.disk.graph
                /\ index_file' = r.disk.index
                /\ last' = [op |-> "handle_request", route |-> r.route, ids |-> r.ids,
                            raised |-> r.raised, kind |-> r.result.kind]
                /\ allocated' = [i \in 1..Len(r.b.nodes) |-> r.b.nodes[i].id]
                /\ UNCHANGED <<sup_vars, calls>>

NextAgent ==
    \/ HandleRequest
    \/ AddNode
    \/ FindOrCreateNode
    \/ AddEdge

\* The agent behind the orchestrator, beside direct calls on its store.
SpecAgent == Init /\ [][NextAgent]_vars

\* ------------------------------------------- add_node, statement by statement
\* Two requests each call add_node once on the shared brain; a thread may be
\* switched out between any two statements, and is while it waits for the
\* embedding provider.
\* node_id = self.next_node_id
ReadNextId(t) ==
    /\ calls[t].pc = "idle"
    /\ \E input \in NodeInputs :
          calls' = [calls EXCEPT ![t] = [@ EXCEPT !.pc = "read",
                                                  !.content = input[1],
                                                  !.type = input[2],
                                                  !.node_id = next_node_id]]
    /\ UNCHANGED <<brain_vars, disk_vars, ghost_vars, sup_vars>>

\* embedding = self.get_embedding(content); if embedding is None: return None
AwaitEmbedding(t) ==
    /\ calls[t].pc = "read"
    /\ \E provider_ok \in BOOLEAN :
          LET embedding == get_embedding(calls[t].content, provider_ok)
          IN  calls' = [calls EXCEPT ![t] =
                          IF embedding = NoEmbedding
                          THEN [@ EXCEPT !.pc = "returned", !.ret = None]
                          ELSE [@ EXCEPT !.pc = "embedded", !.embedding = embedding]]
    /\ UNCHANGED <<brain_vars, disk_vars, ghost_vars, sup_vars>>

\* self.graph.add_node(node_id, content=content, type=node_type, ...)
GraphAddNode(t) ==
    /\ calls[t].pc = "embedded"
    /\ graph_nodes' = graph_add_node(graph_nodes, calls[t].node_id,
                                     calls[t].content, calls[t].type)
    /\ calls' = [calls EXCEPT ![t].pc = "in_graph"]
    /\ UNCHANGED <<graph_edges, index, next_node_id, disk_vars, ghost_vars, sup_vars>>

\* self.index.add_with_ids(embedding_np, ids_np)
IndexAddWithIds(t) ==
    /\ calls[t].pc = "in_graph"
    /\ index' = add_with_ids(index, <<[id |-> calls[t].node_id,
                                       vec |-> calls[t].embedding]>>)
    /\ calls' = [calls EXCEPT ![t].pc = "in_index"]
    /\ UNCHANGED <<graph_nodes, graph_edges, next_node_id, disk_vars, ghost_vars, sup_vars>>

\* self.next_node_id += 1; return node_id
AdvanceAndReturn(t) ==
    /\ calls[t].pc = "in_index"
    /\ next_node_id' = next_node_id + 1
    /\ calls' = [calls EXCEPT ![t] = [@ EXCEPT !.pc = "returned",
                                              !.ret = calls[t].node_id]]
    /\ UNCHANGED <<graph_nodes, graph_edges, index, disk_vars, ghost_vars, sup_vars>>

NextRace ==
    \E t \in Requests :
        \/ ReadNextId(t)
        \/ AwaitEmbedding(t)
        \/ GraphAddNode(t)
        \/ IndexAddWithIds(t)
        \/ AdvanceAndReturn(t)

\* Two concurrent requests on one knowledge base.
SpecRace == Init /\ [][NextRace]_vars

\* The knowledge base with its persistence, over restarts of the process.
Spec == Init /\ [][Next]_vars

\* One knowledge-base instance, constructed on no files, in memory.
SpecStore == Init /\ [][NextStore]_vars

\* The server: requests through the plan-execute-respond workflow.
SpecSup == InitSup /\ [][NextSup]_vars

\* supervisor_app.invoke is a synchronous call: a node that can run does
\* run, and handle_user_request returns once the run has ended.
SpecSupFair ==
    /\ InitSup
    /\ [][NextSup]_vars
    /\ WF_vars(Planner)
    /\ WF_vars(Executor)
    /\ WF_vars(Responder)
    /\ WF_vars(Return)

\* ================================================================ claims
\* C1: the ids an instance holds at its start and the ids its successful
\* add_node calls return are 0, 1, ..., n-1, each once and in that order,
\* however many attempts in between failed for want of an embedding; in an
\* instance that started empty these are the returned ids alone.
C1_IdsAreContiguous ==
    allocated = [i \in 1..Len(allocated) |-> i - 1]

\* C1 witness: in an instance that started empty, add_node returned id 1
\* right after an attempt that failed.
C1_Witness ==
    /\ last.op = "add_node"
    /\ last.after_failure
    /\ last.ret = 1
    /\ allocated = <<0, 1>>

\* C2: a call of add_node (made directly or from find_or_create_node) that
\* finds the embedding unavailable returns None and leaves the nodes, the
\* edges, the index and next_node_id as they were.
C2_FailedAddNodeChangesNothing ==
    [][(last'.op \in {"add_node", "find_or_create_node"} /\ last'.ret = None)
          => UNCHANGED brain_vars]_vars

\* C2 witness: add_node has just failed on a store that holds a node.
C2_Witness ==
    /\ last.op = "add_node"
    /\ last.ret = None
    /\ Len(graph_nodes) >= 1

\* C4 as claimed: the second of two successive find_or_create_node calls
\* with the same content returns the id the first returned and creates
\* nothing, and the two calls leave exactly one node of their making.
C4_AsClaimed ==
    (last.op = "find_or_create_node" /\ last.prior # <<>>) =>
        /\ last.ret # None
        /\ last.ret = last.prior[1].ret
        /\ last.created = 0
        /\ ~last.prior[1].found => last.prior[1].created + last.created = 1

\* C4 amended: when the first of two successive find_or_create_node calls
\* with the same content returns an id, the second returns the same id and
\* creates nothing, and the two calls create one node when the content was
\* not stored before and none when it was.
C4_SecondCallFindsFirst ==
    (/\ last.op = "find_or_create_node"
     /\ last.prior # <<>>
     /\ last.prior[1].ret # None) =>
        /\ last.ret = last.prior[1].ret
        /\ last.created = 0
        /\ last.found
        /\ last.prior[1].created + last.created =
              (IF last.prior[1].found THEN 0 ELSE 1)
        /\ \E i \in 1..Len(graph_nodes) :
              graph_nodes[i].id = last.ret /\ graph_nodes[i].content = last.content

\* C4 witness: the second call has found the node the first call created.
C4_Witness ==
    /\ last.op = "find_or_create_node"
    /\ last.prior # <<>>
    /\ last.prior[1].created = 1
    /\ last.ret = last.prior[1].ret
    /\ last.created = 0

\* C5: add_edge with an endpoint that is not a node changes nothing; with
\* both endpoints in the graph, the edge with the given label is there
\* afterwards and the nodes, the index and next_node_id are as before.
C5_AddEdgeNeedsBothEndpoints ==
    [][last'.op = "add_edge" =>
          IF /\ has_node(graph_nodes, last'.source)
             /\ has_node(graph_nodes, last'.target)
          THEN /\ [source |-> last'.source, target |-> last'.target,
                    label |-> last'.label] \in graph_edges'
               /\ UNCHANGED <<graph_nodes, index, next_node_id>>
          ELSE UNCHANGED brain_vars]_vars

\* C5 witness: add_edge was called with a source that is no node, on a
\* store that holds an edge, and the edge set is still that one edge.
C5_Witness ==
    /\ last.op = "add_edge"
    /\ ~has_node(graph_nodes, last.source)
    /\ has_node(graph_nodes, last.target)
    /\ Cardinality(graph_edges) = 1

\* C3 as claimed: in every state the ids in the vector index are the ids of
\* the nodes of the graph.
C3_IndexMatchesGraph ==
    IndexIds(index) = NodeIds(graph_nodes)

\* C10 as claimed: when the index file and the graph file disagree at the
\* time the knowledge base is constructed, the constructed index holds the
\* ids of the constructed graph's nodes.
C10_LoadRepairsMismatch ==
    (/\ last.op = "__init__"
     /\ index_file.exists
     /\ IndexIds(index_file.entries) # NodeIds(graph_file.nodes))
        => IndexIds(index) = NodeIds(graph_nodes)

\* The plan the planner returned for the request in hand.
ProducedPlan == planner_node(planner_output).plan

ResultKinds(tool_name) ==
    CASE tool_name = "query_knowledge_base" -> {"kb_nothing_relevant", "kb_found"}
      [] tool_name = "tavily_search" -> {"wikipedia_summary", "wikipedia_no_page",
                                         "search_apology", "tavily_results"}
      [] OTHER -> {}

\* C6: the History the responder writes into its prompt has one Tool Result
\* for every Step of the Plan the planner produced, in the Plan's order,
\* each under the tool name of its Step and holding a result of that tool.
C6_HistoryFollowsPlan ==
    runs.responder >= 1 =>
        /\ Len(prompt_history) = Len(ProducedPlan.items)
        /\ \A i \in 1..Len(prompt_history) :
              /\ prompt_history[i].name = ProducedPlan.items[i].tool
              /\ prompt_history[i].content.kind \in ResultKinds(ProducedPlan.items[i].tool)

\* C6 witness: the responder was handed the results of a two-step Plan of
\* two different tools.
C6_Witness ==
    /\ runs.responder = 1
    /\ Len(prompt_history) = 2
    /\ prompt_history[1].name = "query_knowledge_base"
    /\ prompt_history[2].name = "tavily_search"

WorkflowOrder == {<<"planner", "executor">>, <<"executor", "executor">>,
                  <<"executor", "responder">>, <<"responder", "END">>}

\* C7: within a request the run moves only planner -> executor,
\* executor -> executor, executor -> responder and responder -> END; the
\* responder is entered only with an empty Plan; the planner has run once
\* whenever the run is past it and never runs twice; the responder never
\* runs twice and has run once when the run is at END.
C7_LinearWorkflow ==
    /\ [](/\ runs.planner <= 1
          /\ runs.responder <= 1
          /\ node \in {"executor", "responder", "END"} => runs.planner = 1
          /\ node \in {"idle", "planner", "executor"} => runs.responder = 0
          /\ node = "END" => runs.responder = 1)
    /\ [][\/ (node' = "planner" /\ runs' = NoRuns)
          \/ /\ node' = node \/ <<node, node'>> \in WorkflowOrder
             /\ (node = "executor" /\ node' = "responder") => plan'.items = <<>>]_vars

\* C7 witness: a request that went round the executor twice, through the
\* responder, and was answered.
C7_Witness ==
    /\ node = "END"
    /\ runs = [planner |-> 1, executor |-> 2, responder |-> 1]
    /\ reply.status = 200

WellFormed(value) ==
    /\ value.type = "list"
    /\ \A i \in 1..Len(value.items) :
          value.items[i].tool # NoKey /\ value.items[i].arg # NoKey

\* C8 as claimed: whatever Steps the Plan holds and whichever tools fail,
\* no request ends in EXECUTING with a protocol error.
C8_ToolFailuresAreAbsorbed ==
    (node = "executor" /\ WellFormed(ProducedPlan)) => reply.status # 500

Unparseable(output) ==
    \/ output.kind \in {"not_json", "not_object", "no_plan_key"}
    \/ output.kind = "plan" /\ ~WellFormed(output.plan)

\* C9 as claimed: when the planning output is not of the expected shape the
\* Plan has no Steps, no tool is invoked, and the executor does not fail.
C9_UnparseableGivesEmptyPlan ==
    (Unparseable(planner_output) /\ node \in {"executor", "responder", "END"}) =>
        /\ ProducedPlan.items = <<>>
        /\ past_steps = <<>>
        /\ node = "executor" => reply.status # 500

\* C11: when a knowledge base has been constructed, next_node_id is one
\* more than the largest id of the loaded graph, or 0 when the graph is
\* empty, and is the id of no node; the first add_node after a construction
\* that succeeds returns an id no node had.
C11_NextIdAfterLoad ==
    /\ [](last.op = "__init__" =>
            /\ next_node_id = IF graph_nodes = <<>> THEN 0
                              ELSE SetMax(NodeIds(graph_nodes)) + 1
            /\ ~has_node(graph_nodes, next_node_id))
    /\ [][(last.op = "__init__" /\ last'.op = "add_node" /\ last'.ret # None) =>
             /\ ~has_node(graph_nodes, last'.ret)
             /\ Len(graph_nodes') = Len(graph_nodes) + 1]_vars

\* C11 witness: a knowledge base was constructed from a graph file of two
\* nodes.
C11_Witness ==
    /\ last.op = "__init__"
    /\ graph_file.exists
    /\ Len(graph_nodes) = 2
    /\ next_node_id = 2

\* C12: a knowledge base constructed right after a save() that wrote both
\* files has the nodes, under the same ids, the edges with their labels and
\* the index entries of the instance that saved, and its next_node_id is the
\* number of nodes.
C12_SaveLoadRoundTrip ==
    [][(last'.op = "__init__" /\ last'.after_save) =>
          /\ graph_nodes' = graph_nodes
          /\ graph_edges' = graph_edges
          /\ index' = index
          /\ next_node_id' = Len(graph_nodes)]_vars

\* C12 witness: a store of two nodes and an edge was saved and loaded.
C12_Witness ==
    /\ last.op = "__init__"
    /\ last.after_save
    /\ Len(graph_nodes) = 2
    /\ Cardinality(graph_edges) = 1
    /\ IndexIds(index) = {0, 1}

\* C13: hybrid_search(q, k) gives at most k seeds and at most as many as the
\* store has nodes, each keyed by the id of a node of the store and holding
\* that node's content, no id twice; on an empty store it gives none.
C13_SearchCap ==
    last.op = "hybrid_search" =>
        /\ Len(last.results) <= Min(last.k, Len(graph_nodes))
        /\ \A i \in 1..Len(last.results) :
              /\ has_node(graph_nodes, last.results[i].id)
              /\ last.results[i].content = node_data(graph_nodes, last.results[i].id).content
              /\ \A j \in 1..Len(last.results) :
                    i # j => last.results[i].id # last.results[j].id
        /\ graph_nodes = <<>> => last.results = <<>>

\* C13 witness: a search with k = 1 on a store of two nodes gave one seed.
C13_Witness ==
    /\ last.op = "hybrid_search"
    /\ last.k = 1
    /\ Len(graph_nodes) = 2
    /\ Len(last.results) = 1

\* C14 as claimed: for every seed of a search and every edge that leaves or
\* enters the seed, the seed's neighborhood has an entry for the node at the
\* other end carrying that edge's label.
C14_EveryIncidentEdgeIsReported ==
    last.op = "hybrid_search" =>
        \A i \in 1..Len(last.results) :
            \A e \in graph_edges :
                /\ e.source = last.results[i].id =>
                      \E n \in last.results[i].neighborhood :
                          n.id = e.target /\ n.relationship = e.label
                /\ e.target = last.results[i].id =>
                      \E n \in last.results[i].neighborhood :
                          n.id = e.source /\ n.relationship = e.label

\* The executor is about to run a Step of one of the given tools.
StepNamed(tools) ==
    /\ node = "executor"
    /\ reply.status = 0
    /\ plan.type = "list"
    /\ Len(plan.items) >= 1
    /\ plan.items[1].tool \in tools
    /\ plan.items[1].arg # NoKey

\* The same, with an argument that fits the tool.
StepOf(tools) == StepNamed(tools) /\ plan.items[1].arg = "well_shaped"

ExecutorRan == runs'.executor = runs.executor + 1

\* C15: a query_knowledge_base Step during which the embedding provider
\* fails raises nothing, leaves the nodes, the edges, the index and
\* next_node_id as they were, and appends the 'no relevant information'
\* text to the History as the Step's Tool Result.
C15_QueryWithoutEmbedding ==
    [][(StepOf({"query_knowledge_base"}) /\ ExecutorRan /\ ~last'.provider_ok) =>
          /\ UNCHANGED brain_vars
          /\ reply' = NoReply
          /\ past_steps' = Append(past_steps,
                                  [name |-> "query_knowledge_base",
                                   content |-> [kind |-> "kb_nothing_relevant",
                                                found |-> <<>>]])]_vars

\* C15 witness: on a store of two indexed nodes, a query Step ran while the
\* provider failed and its Tool Result is the 'no relevant information' text.
C15_Witness ==
    /\ last.op = "execution_node"
    /\ ~last.provider_ok
    /\ Len(index) = 2
    /\ Len(past_steps) = 1
    /\ past_steps[1].name = "query_knowledge_base"
    /\ past_steps[1].content.kind = "kb_nothing_relevant"

\* The Step the executor has taken returned: one Tool Result under the
\* Step's tool name was appended, the Plan lost its first Step, and the
\* request goes on.
StepReturned ==
    /\ reply' = NoReply
    /\ Len(past_steps') = Len(past_steps) + 1
    /\ past_steps'[Len(past_steps')].name = plan.items[1].tool
    /\ plan'.items = Tail(plan.items)

C17_SaveFailureIsSurfaced ==
    (last.op = "save" /\ last.outcome # "ok") => last.seen # save_result("ok")

\* C18 as claimed: a Step that names a tool of the registry with an argument
\* that fits it, run while the provider and the lookup answer, returns a
\* text that is appended to the History as one Tool Result.
C18_EveryToolReturnsText ==
    [][(/\ StepOf(ToolNames)
        /\ ExecutorRan
        /\ last'.provider_ok
        /\ last'.lookup = "page") => StepReturned]_vars

StoredAs(nodes, content) == {i \in 1..Len(nodes) : nodes[i].content = content}

\* C19 as claimed: after a Step of update_knowledge_base with the extracted
\* graph, run while the provider answers, every content of the payload is
\* the content of exactly one node, every edge of the payload is in the
\* graph between those nodes, and both files hold the store.
C19_UpdateStepStoresPayload ==
    [][(StepOf({"update_knowledge_base"}) /\ ExecutorRan /\ last'.provider_ok) =>
          /\ \A i \in 1..Len(ExtractedGraph.nodes) :
                Cardinality(StoredAs(graph_nodes', ExtractedGraph.nodes[i].content)) = 1
          /\ \A i \in 1..Len(ExtractedGraph.edges) :
                \E e \in graph_edges' :
                    /\ e.label = ExtractedGraph.edges[i].relationship
                    /\ node_data(graph_nodes', e.source).content =
                          ExtractedGraph.edges[i].source
                    /\ node_data(graph_nodes', e.target).content =
                          ExtractedGraph.edges[i].target
          /\ graph_file' = [exists |-> TRUE, nodes |-> graph_nodes',
                            edges |-> graph_edges']
          /\ index_file' = [exists |-> TRUE, entries |-> index']]_vars

\* C20: a Step of query_knowledge_base or tavily_search, whatever its
\* argument and whether the provider and the lookup answer or fail, leaves
\* the nodes, the edges, the index, next_node_id and both files as they
\* were.
C20_ReadOnlySteps ==
    [][(StepNamed({"query_knowledge_base", "tavily_search"}) /\ ExecutorRan)
          => UNCHANGED <<brain_vars, disk_vars>>]_vars

\* C20 witness: on a saved store of two nodes, a query Step that found
\* nodes and a search Step whose lookup failed have run.
C20_Witness ==
    /\ last.op = "execution_node"
    /\ last.lookup = "fails"
    /\ graph_file.exists
    /\ Len(graph_nodes) = 2
    /\ Len(past_steps) = 2
    /\ past_steps[1].content.kind = "kb_found"
    /\ past_steps[2].content.kind = "search_apology"

\* C21 as claimed: when the add_node calls of two concurrent requests have
\* both returned an id, the ids differ, the store holds two nodes, no two
\* vectors are under one id, and next_node_id has advanced by two.
C21_AddNodeIsSerialized ==
    (\A t \in Requests : calls[t].pc = "returned" /\ calls[t].ret # None) =>
        /\ calls["r1"].ret # calls["r2"].ret
        /\ Len(graph_nodes) = 2
        /\ Cardinality(IndexIds(index)) = Len(index)
        /\ next_node_id = 2

\* C22: when the server has been shut down and both writes of the handler's
\* save() succeeded, the graph file holds the nodes and the edges that are
\* in memory and the index file holds the vectors that are in memory.
C22_ShutdownSaves ==
    (last.op = "shutdown" /\ last.outcome = "ok") =>
        /\ graph_file = [exists |-> TRUE, nodes |-> graph_nodes, edges |-> graph_edges]
        /\ index_file = [exists |-> TRUE, entries |-> index]

\* C22 witness: a server holding two nodes and an edge was shut down and
\* its files hold them.
C22_Witness ==
    /\ last.op = "shutdown"
    /\ last.outcome = "ok"
    /\ Len(graph_file.nodes) = 2
    /\ Cardinality(graph_file.edges) = 1
    /\ Len(index_file.entries) = 2

\* C25 as claimed: after a construction that rebuilt the index from the
\* graph, the index holds one vector for every node of the graph, under the
\* node's id, whichever embeddings failed during the rebuild.
C25_RebuildCoversEveryNode ==
    (last.op = "__init__" /\ last.rebuilt) =>
        /\ Len(index) = Len(graph_nodes)
        /\ \A i \in 1..Len(graph_nodes) :
              \E j \in 1..Len(index) :
                  /\ index[j].id = graph_nodes[i].id
                  /\ index[j].vec = graph_nodes[i].content

UnknownTools == {"send_email"}

\* C23: a Step whose tool is no key of all_tools makes the executor raise:
\* the request is answered with the internal error, no Tool Result is
\* appended, the Plan keeps the Step and those after it, the store and the
\* files stay as the earlier Steps left them; after the error no node runs
\* again for that request, and the responder has not run.
C23_UnknownToolIsFatal ==
    /\ [][(StepNamed(UnknownTools) /\ ExecutorRan) =>
             /\ reply' = InternalError
             /\ past_steps' = past_steps
             /\ plan' = plan
             /\ node' = node
             /\ UNCHANGED <<brain_vars, disk_vars>>]_vars
    /\ [][reply.status = 500 => (runs' = runs \/ runs' = NoRuns)]_vars
    /\ []((reply.status = 500 /\ node = "executor") =>
             (runs.responder = 0 /\ response = NoResponse))

\* C23 witness: the second Step of a Plan named an unknown tool; the first
\* Step's Tool Result is in the History, the unknown Step is still the
\* Plan's first, and the request was answered with the internal error.
C23_Witness ==
    /\ reply = InternalError
    /\ node = "executor"
    /\ runs.executor = 2
    /\ Len(past_steps) = 1
    /\ Len(plan.items) = 1
    /\ plan.items[1].tool \in UnknownTools

Max(a, b) == IF a >= b THEN a ELSE b

C27_HistoryPlusPlan ==
    (node \in {"executor", "responder"} /\ runs.responder = 0) =>
        LET n == Len(ProducedPlan.items)
        IN  /\ Len(past_steps) + Len(plan.items) = n
            /\ plan.items = SubSeq(ProducedPlan.items, Len(past_steps) + 1, n)
            /\ \A i \in 1..Len(past_steps) :
                  past_steps[i].name = ProducedPlan.items[i].tool

\* C27 witness: one Step of a Plan of two has run and one is left.
C27_Witness ==
    /\ node = "executor"
    /\ reply.status = 0
    /\ Len(past_steps) = 1
    /\ Len(plan.items) = 1
    /\ Len(ProducedPlan.items) = 2

\* C29: no two edges of the store join the same source to the same target;
\* add_edge(s, t, r2) on a store that holds s -> t labelled r1 leaves the
\* number of edges as it was and the edge s -> t labelled r2 and no longer
\* r1.
C29_OneEdgePerPair ==
    /\ [](\A e, f \in graph_edges :
             (e.source = f.source /\ e.target = f.target) => e = f)
    /\ [][(last'.op = "add_edge" /\ last'.replaced # "") =>
             /\ last'.replaced = edge_label(graph_edges, last'.source, last'.target)
             /\ Cardinality(graph_edges') = Cardinality(graph_edges)
             /\ edge_label(graph_edges', last'.source, last'.target) = last'.label]_vars

\* C29 witness: add_edge gave an edge labelled MENTIONS the label LIVES_IN,
\* and the store holds one edge after two successful calls.
C29_Witness ==
    /\ last.op = "add_edge"
    /\ last.replaced = "MENTIONS"
    /\ last.label = "LIVES_IN"
    /\ Cardinality(graph_edges) = 1
    /\ edge_label(graph_edges, last.source, last.target) = "LIVES_IN"

\* C26 as claimed: when the note of a note-saving route could not be
\* created for want of an embedding, no exception escapes and the text
\* reported upward does not say that the note was saved.
C26_FailedNoteIsReported ==
    (/\ last.op = "handle_request"
     /\ last.route \in {"single_note", "simple_note"}
     /\ last.ids = <<None>>) =>
        /\ ~last.raised
        /\ last.kind \notin {"saved_single_note", "saved_simple_note"}

\* C28: both ends of every edge of the store are nodes of the store, and
\* no edge has the id of a failed creation (None) at either end.
C28_NoDanglingEdge ==
    \A e \in graph_edges :
        /\ has_node(graph_nodes, e.source)
        /\ has_node(graph_nodes, e.target)
        /\ e.source # None
        /\ e.target # None

\* C28 witness: update_knowledge_base was given two nodes and an edge
\* between them, the creation of the second node failed, and the store
\* holds the first node and no edge.
C28_Witness ==
    /\ last.op = "handle_request"
    /\ last.route = "graph"
    /\ ~last.raised
    /\ last.ids = <<0, None>>
    /\ Len(graph_nodes) = 1
    /\ graph_edges = {}

====
